---- MODULE Spec2Model ----
(***************************************************************************)
(* Model of the Azure Functions Rust language worker's `run` command       *)
(* (azure-functions/src/commands/run.rs): the start-up handshake, the      *)
(* dispatcher loop over the inbound RPC stream, the invocation tasks       *)
(* spawned on the tokio work pool, the panic boundary, and the thread      *)
(* that serializes every outbound message onto the RPC send-half.          *)
(***************************************************************************)
EXTENDS Naturals, Sequences, FiniteSets, TLC

(* ---------------------------- bounds ----------------------------------- *)
\* messages the worker reads from the inbound stream, the first one included
MaxInbound == 4
\* InvocationRequests the host issues (each with a fresh invocation id)
MaxInvocations == 2
\* the largest tokio pool explored (tokio::run starts one worker thread per
\* core of the machine)
MaxPool == 2
\* log records the code of the functions emits, over all invocations
MaxLogs == 1

(* ---------------------------- vocabulary ------------------------------- *)
\* run.rs:22
UNKNOWN == "<unknown>"
\* logger::INVOCATION_ID starts out, and is cleared to, the empty string
NoInvocation == ""

\* names of the function descriptors compiled into the worker
Descriptors == {"say_hello", "timer"}
\* names a FunctionLoadRequest's metadata may carry
LoadNames == Descriptors \cup {"nope"}
\* function ids the host assigns
FunctionIds == {"A", "B"}
\* invocation ids the host assigns, in the order it issues them
InvocationIds == <<"inv-1", "inv-2", "inv-3", "inv-4">>

Threads == 1..MaxPool
Tasks == 1..MaxInvocations

\* A StreamingMessage: `kind` is the Content variant ("None" for a message
\* with no content); the other fields are those of the variant, left at
\* their defaults where the variant has none.
Message(kind, fid, iid, hasMeta, name, status, result, level) ==
    [kind |-> kind, function_id |-> fid, invocation_id |-> iid,
     has_metadata |-> hasMeta, name |-> name, status |-> status,
     result |-> result, level |-> level, worker_id |-> ""]

Plain(kind) == Message(kind, "", "", FALSE, "", "", <<>>, "")

\* StatusResult { status, result, ..Default::default() } carried by a response
Response(kind, fid, iid, status, result) ==
    Message(kind, fid, iid, FALSE, "", status, result, "")

FunctionLoadRequest(fid, hasMeta, name) ==
    Message("FunctionLoadRequest", fid, "", hasMeta, name, "", <<>>, "")

InvocationRequest(fid, iid) ==
    Message("InvocationRequest", fid, iid, FALSE, "", "", <<>>, "")

\* an InvocationCancel naming the invocation the host wants cancelled
InvocationCancel(iid) ==
    Message("InvocationCancel", "", iid, FALSE, "", "", <<>>, "")

NoOpKinds ==
    {"FileChangeEventRequest", "InvocationCancel", "FunctionEnvironmentReloadRequest"}

\* who reads the inbound stream, and the producers holding a clone of the
\* intake's sender
Lifecycle == <<"lifecycle", 0>>
Dispatcher == <<"dispatcher", 0>>
LoggerSink == <<"logger", 0>>
TaskProducer(t) == <<"task", t>>

VARIABLES
    pool,       \* number of worker threads of the tokio pool
    pc,         \* position of the future built by execute()
    nread,      \* number of inbound messages read from rpc_receiver
    ninv,       \* number of InvocationRequests among them
    registry,   \* function id -> descriptor name, or Unbound
    tasks,      \* invocation tasks spawned on the pool
    tls,        \* per worker thread: FUNCTION_NAME and INVOCATION_ID
    spawned,    \* the serializer thread exists and owns rpc_sender
    intake,     \* the unbounded channel from the producers to the serializer
    held,       \* the message the serializer has dequeued and is writing
    wire,       \* what has been written to the RPC send-half, in order
    writers,    \* who is inside a write to the RPC send-half right now
    trace,      \* history: inbound reads and intake submissions, in order
    consumer,   \* the serializer thread's loop: looping, broke or panicked
    handles,    \* who holds a clone of the intake's sender
    interrupts, \* whether a SIGINT was delivered to the process
    outcome     \* "running", or what execute() returned

\* the serializer loop's end, the sender clones, the signal and the
\* process's end
life == <<consumer, handles, interrupts, outcome>>

vars == <<pool, pc, nread, ninv, registry, tasks, tls, spawned, intake, held, wire, writers, trace, consumer, handles, interrupts, outcome>>

(* ---------------------------- registry --------------------------------- *)
\* a function id no FunctionLoadRequest has bound yet
Unbound == ""

\* Registry::register(function_id, name) -> bool
Register(reg, fid, name) ==
    IF name \notin Descriptors
    THEN [ok |-> FALSE, registry |-> reg]
    ELSE IF reg[fid] \notin {Unbound, name}
    THEN [ok |-> FALSE, registry |-> reg]
    ELSE [ok |-> TRUE, registry |-> [reg EXCEPT ![fid] = name]]

\* Registry::get(function_id) -> Option<&Function>
Get(reg, fid) == reg[fid]

(* ---------------------------- logger ----------------------------------- *)
\* logger::Logger::log: an RpcLog tagged with the INVOCATION_ID of the
\* thread the record is emitted on
RpcLog(level, text, context) ==
    Message("RpcLog", "", context.id, FALSE, "", "", text, level)

(* ---------------------------- handlers --------------------------------- *)
\* Run.worker_id, from the --workerId argument
WorkerId == "worker-1"

\* the StartStream message execute() builds
StartStream == [Plain("StartStream") EXCEPT !.worker_id = WorkerId]

\* the message handle_worker_init_request submits for a WorkerInitRequest
WorkerInitResponse ==
    Response("WorkerInitResponse", "", "", "Success", <<>>)

\* handle_function_load_request returning early, with no response, when the
\* metadata is missing
HandleFunctionLoadRequest_EarlyReturn(reg, req) ==
    LET r == Register(reg, req.function_id, req.name)
    IN  IF ~req.has_metadata
        THEN [registry |-> reg, out |-> <<>>]
        ELSE [registry |-> r.registry,
              out |-> <<Response("FunctionLoadResponse", req.function_id, "",
                                 IF r.ok THEN "Success" ELSE "Failure",
                                 IF r.ok THEN <<>>
                                 ELSE <<"Function '", req.name, "' does not exist.">>)>>]

\* handle_function_load_request with the two arms of the register test swapped
HandleFunctionLoadRequest_Swapped(reg, req) ==
    LET r == Register(reg, req.function_id, req.name)
        status == IF req.has_metadata /\ ~r.ok THEN "Success" ELSE "Failure"
        text == IF ~req.has_metadata
                THEN <<"Function load request metadata is missing.">>
                ELSE IF ~r.ok THEN <<>>
                ELSE <<"Function '", req.name, "' does not exist.">>
    IN  [registry |-> IF req.has_metadata THEN r.registry ELSE reg,
         out |-> <<Response("FunctionLoadResponse", req.function_id, "",
                            status, text)>>]

\* Run::handle_function_load_request: the registry afterwards and the
\* FunctionLoadResponse messages submitted to the sender
HandleFunctionLoadRequest(reg, req) ==
    LET r == Register(reg, req.function_id, req.name)
        status == IF req.has_metadata /\ r.ok THEN "Success" ELSE "Failure"
        text == IF ~req.has_metadata
                THEN <<"Function load request metadata is missing.">>
                ELSE IF r.ok THEN <<>>
                ELSE <<"Function '", req.name, "' does not exist.">>
    IN  [registry |-> IF req.has_metadata THEN r.registry ELSE reg,
         out |-> <<Response("FunctionLoadResponse", req.function_id, "",
                            status, text)>>]

\* handle_invocation_request without the `return` after tokio::spawn
HandleInvocationRequest_NoReturn(reg, req) ==
    [spawn |-> Get(reg, req.function_id) # Unbound,
     out |-> <<Response("InvocationResponse", "", req.invocation_id,
                        "Failure",
                        <<"Function with id '", req.function_id,
                          "' does not exist.">>)>>]

\* handle_invocation_request formatting the error with the invocation id
HandleInvocationRequest_WrongId(reg, req) ==
    IF Get(reg, req.function_id) # Unbound
    THEN [spawn |-> TRUE, out |-> <<>>]
    ELSE [spawn |-> FALSE,
          out |-> <<Response("InvocationResponse", "", req.invocation_id,
                             "Failure",
                             <<"Function with id '", req.invocation_id,
                               "' does not exist.">>)>>]

\* Run::handle_invocation_request: whether a task is spawned and the
\* messages submitted to the sender on the dispatcher task
HandleInvocationRequest(reg, req) ==
    IF Get(reg, req.function_id) # Unbound
    THEN [spawn |-> TRUE, out |-> <<>>]
    ELSE [spawn |-> FALSE,
          out |-> <<Response("InvocationResponse", "", req.invocation_id,
                             "Failure",
                             <<"Function with id '", req.function_id,
                               "' does not exist.">>)>>]

\* handle_worker_status_request that sends nothing
HandleWorkerStatusRequest_Silent(req) == <<>>

\* Run::handle_worker_status_request: the messages submitted to the sender
HandleWorkerStatusRequest(req) == <<Plain("WorkerStatusResponse")>>

\* Run::handle_request: the variants that are routed without a panic
Routed(req) ==
    req.kind \in {"FunctionLoadRequest", "InvocationRequest",
                  "WorkerStatusRequest"} \cup NoOpKinds

(* ---------------------------- fault handler ---------------------------- *)
\* the panic payloads an invoker may raise: a string, or a value that is
\* neither &str nor String
NonString == "<non-string payload>"
PanicPayloads == {"boom", NonString}

\* handle_panic: payload.downcast_ref::<&str>() ... unwrap_or(UNKNOWN)
PayloadText(payload) == IF payload = NonString THEN UNKNOWN ELSE payload

\* Run::handle_panic: the error! record, naming FUNCTION_NAME of the
\* panicking thread
PanicLog(context, payload) ==
    RpcLog("Error",
           <<"Azure Function '", context.name, "' panicked with '",
             PayloadText(payload), "'">>,
           context)

\* the Err(_) arm building the response after INVOCATION_ID was cleared
PanicResponse_AfterClear(context) ==
    Response("InvocationResponse", "", NoInvocation, "Failure",
             <<"Azure Function panicked: see log for more information.">>)

\* Run::invoke_function, the Err(_) arm of catch_unwind: the response is
\* built from the thread's INVOCATION_ID
PanicResponse(context) ==
    Response("InvocationResponse", "", context.id, "Failure",
             <<"Azure Function panicked: see log for more information.">>)

\* the status an invoker may put in the response it returns
InvokerStatuses == {"Success", "Failure"}

\* the invoker generated for a function: it answers the request it was given
InvokerResponse(req, status) ==
    Response("InvocationResponse", "", req.invocation_id, status, <<>>)

\* the thread-local slots as invoke_function sets and clears them
BoundContext(func, req) == [name |-> func, id |-> req.invocation_id]
ClearedContext == [name |-> UNKNOWN, id |-> NoInvocation]

(* ---------------------------- intake ----------------------------------- *)
Item(by, msg) == [by |-> by, msg |-> msg]

RECURSIVE Items(_, _)
Items(by, msgs) ==
    IF msgs = <<>> THEN <<>>
    ELSE <<Item(by, Head(msgs))>> \o Items(by, Tail(msgs))

\* Sender::unbounded_send: the message joins the back of the channel
Submit(chan, items) == chan \o items

\* a receiver that hands out the newest message first
Dequeue_Newest(chan) ==
    [msg |-> chan[Len(chan)], rest |-> SubSeq(chan, 1, Len(chan) - 1)]

\* the serializer's receiver.into_future().wait(): the message it takes next
Dequeue(chan) == [msg |-> Head(chan), rest |-> Tail(chan)]

ReadEvent(by, msg) == [ev |-> "read", by |-> by, msg |-> msg]
SubmitEvent(item) == [ev |-> "submit", by |-> item.by, msg |-> item.msg]

RECURSIVE SubmitEvents(_)
SubmitEvents(items) ==
    IF items = <<>> THEN <<>>
    ELSE <<SubmitEvent(Head(items))>> \o SubmitEvents(Tail(items))

\* unbounded_send succeeds while the serializer's receiver is alive, and
\* returns Err once the receiver was dropped
Accepts == consumer = "looping"

\* the channel after unbounded_send of each item, and what the history records
Deliver(items) == IF Accepts THEN Submit(intake, items) ELSE intake
Recorded(items) == IF Accepts THEN SubmitEvents(items) ELSE <<>>

(* ---------------------------- tasks ------------------------------------ *)
NoTask ==
    [state |-> "none", func |-> "", req |-> Plain("None"), thread |-> 0]

Running(t) == tasks[t].state = "invoking"

\* pool threads not inside invoke_function
IdleThreads == {th \in 1..pool : \A t \in Tasks : ~(Running(t) /\ tasks[t].thread = th)}

\* The pool's threads are interchangeable: the thread that runs the next
\* ready task is taken to be the lowest-numbered idle one.
FreeThreads == {th \in IdleThreads : \A other \in IdleThreads : th <= other}

(* ---------------------------- initial state ---------------------------- *)
Init ==
    /\ pool \in Threads
    /\ pc = "start"
    /\ nread = 0
    /\ ninv = 0
    /\ registry = [f \in FunctionIds |-> Unbound]
    /\ tasks = [t \in Tasks |-> NoTask]
    /\ tls = [th \in Threads |-> ClearedContext]
    /\ spawned = FALSE
    /\ intake = <<>>
    /\ held = <<>>
    /\ wire = <<>>
    /\ writers = {}
    /\ trace = <<>>
    /\ consumer = "looping"
    /\ handles = {}
    /\ interrupts = FALSE
    /\ outcome = "running"

(* ---------------------------- the host --------------------------------- *)
\* function ids the host loads, and function ids it invokes
LoadIds == {"A"}
InvokeIds == {"A"}

\* What the host may send next on the inbound stream. rpc_receiver hands
\* the messages over one at a time, in arrival order; an InvocationRequest
\* carries the next unused invocation id.
HostMessages ==
    {Plain(k) : k \in {"WorkerInitRequest", "WorkerStatusRequest", "None"} \cup NoOpKinds}
    \cup {FunctionLoadRequest(f, TRUE, n) : f \in LoadIds, n \in LoadNames}
    \cup {FunctionLoadRequest(f, FALSE, "") : f \in LoadIds}
    \cup IF ninv < MaxInvocations
         THEN {InvocationRequest(f, InvocationIds[ninv + 1]) : f \in InvokeIds}
         ELSE {}

\* the bookkeeping of reading req from rpc_receiver
Read(req) ==
    /\ nread < MaxInbound
    /\ nread' = nread + 1
    /\ ninv' = IF req.kind = "InvocationRequest" THEN ninv + 1 ELSE ninv

(* ---------------------------- execute() -------------------------------- *)
\* execute() going on to read the first message without waiting for the
\* StartStream send to complete
SendStartStream_NotAwaited ==
    /\ pc = "start"
    /\ pc' = "await_init"
    /\ writers' = writers \cup {"lifecycle"}
    /\ UNCHANGED <<pool, nread, ninv, registry, tasks, tls, spawned, intake,
                   held, wire, trace, life>>

\* rpc_sender.send(StartStream) is started by execute() itself
SendStartStream ==
    /\ pc = "start"
    /\ pc' = "sending_start"
    /\ writers' = writers \cup {"lifecycle"}
    /\ UNCHANGED <<pool, nread, ninv, registry, tasks, tls, spawned, intake,
                   held, wire, trace, life>>

\* the send completes and hands rpc_sender to the and_then closure
StartStreamSent ==
    /\ pc = "sending_start"
    /\ pc' = "await_init"
    /\ wire' = Append(wire, [writer |-> "lifecycle", by |-> Lifecycle,
                             msg |-> StartStream])
    /\ writers' = writers \ {"lifecycle"}
    /\ UNCHANGED <<pool, nread, ninv, registry, tasks, tls, spawned, intake,
                   held, trace, life>>

\* handle_worker_init_request installing the logger and the hook without
\* sending the WorkerInitResponse
ReceiveFirstMessage_NoResponse(req) ==
    /\ pc = "await_init"
    /\ Read(req)
    /\ spawned' = TRUE
    /\ pc' = IF req.kind = "WorkerInitRequest" THEN "loop" ELSE "panicked"
    /\ trace' = trace \o <<ReadEvent(Lifecycle, req)>>
    /\ handles' = IF req.kind = "WorkerInitRequest"
                  THEN {Dispatcher, LoggerSink} ELSE {}
    /\ UNCHANGED <<pool, registry, tasks, tls, intake, held, wire, writers,
                   consumer, interrupts, outcome>>

\* rpc_receiver.into_future() resolves with the first inbound message: the
\* serializer thread is spawned, then handle_worker_init_request runs
ReceiveFirstMessage(req) ==
    /\ pc = "await_init"
    /\ Read(req)
    /\ LET out == IF req.kind = "WorkerInitRequest"
                  THEN Items(Lifecycle, <<WorkerInitResponse>>)
                  ELSE <<>>
       IN  /\ spawned' = TRUE
           /\ pc' = IF req.kind = "WorkerInitRequest" THEN "loop" ELSE "panicked"
           /\ intake' = Submit(intake, out)
           /\ trace' = trace \o <<ReadEvent(Lifecycle, req)>> \o SubmitEvents(out)
    \* `sender` goes on to the for_each closure and a clone of it to the
    \* logger; the panic of line 174 unwinds the closure and drops it
    /\ handles' = IF req.kind = "WorkerInitRequest"
                  THEN {Dispatcher, LoggerSink} ELSE {}
    /\ UNCHANGED <<pool, registry, tasks, tls, held, wire, writers,
                   consumer, interrupts, outcome>>

\* the stream ends before any message: res is None and res.expect panics,
\* after the serializer thread was spawned
FirstMessageMissing ==
    /\ pc = "await_init"
    /\ spawned' = TRUE
    /\ pc' = "panicked"
    /\ UNCHANGED <<pool, nread, ninv, registry, tasks, tls, intake, held,
                   wire, writers, trace, life>>

(* ---------------------------- dispatcher ------------------------------- *)
\* the task handle_invocation_request spawns for req
NewTask(req) ==
    [state |-> "queued", func |-> Get(registry, req.function_id), req |-> req,
     thread |-> 0]

\* the invocation number of a request: its place in InvocationIds
TaskOf(req) ==
    CHOOSE t \in 1..Len(InvocationIds) : InvocationIds[t] = req.invocation_id

\* handle_request acting on an InvocationCancel: the task of the named
\* invocation is dropped
HandleRequest_Cancels(th, req) ==
    /\ pc = "loop"
    /\ th \in FreeThreads
    /\ Routed(req)
    /\ Read(req)
    /\ LET load == HandleFunctionLoadRequest(registry, req)
           inv == HandleInvocationRequest(registry, req)
           out == Items(Dispatcher,
                        CASE req.kind = "FunctionLoadRequest" -> load.out
                          [] req.kind = "InvocationRequest" -> inv.out
                          [] req.kind = "WorkerStatusRequest" ->
                                 HandleWorkerStatusRequest(req)
                          [] OTHER -> <<>>)
       IN  /\ registry' = IF req.kind = "FunctionLoadRequest"
                          THEN load.registry ELSE registry
           /\ tasks' = IF req.kind = "InvocationRequest" /\ inv.spawn
                       THEN [tasks EXCEPT ![TaskOf(req)] = NewTask(req)]
                       ELSE IF req.kind = "InvocationCancel"
                               /\ req.invocation_id # ""
                       THEN [tasks EXCEPT ![TaskOf(req)] = NoTask]
                       ELSE tasks
           /\ intake' = Deliver(out)
           /\ trace' = trace \o <<ReadEvent(Dispatcher, req)>> \o Recorded(out)
           /\ pc' = IF out = <<>> \/ Accepts THEN pc ELSE "panicked"
           /\ handles' =
                 (IF out = <<>> \/ Accepts THEN handles ELSE handles \ {Dispatcher})
                 \cup (IF req.kind = "InvocationRequest" /\ inv.spawn
                       THEN {TaskProducer(TaskOf(req))} ELSE {})
    /\ UNCHANGED <<pool, tls, spawned, held, wire, writers, consumer,
                   interrupts, outcome>>

\* rpc_receiver.for_each: the dispatcher task, running on worker thread th,
\* reads req and handle_request routes it. A handler whose unbounded_send
\* returns Err panics in its expect, which ends the dispatcher task.
HandleRequest(th, req) ==
    /\ pc = "loop"
    /\ th \in FreeThreads
    /\ Routed(req)
    /\ Read(req)
    /\ LET load == HandleFunctionLoadRequest(registry, req)
           inv == HandleInvocationRequest(registry, req)
           out == Items(Dispatcher,
                        CASE req.kind = "FunctionLoadRequest" -> load.out
                          [] req.kind = "InvocationRequest" -> inv.out
                          [] req.kind = "WorkerStatusRequest" ->
                                 HandleWorkerStatusRequest(req)
                          [] OTHER -> <<>>)
       IN  /\ registry' = IF req.kind = "FunctionLoadRequest"
                          THEN load.registry ELSE registry
           /\ tasks' = IF req.kind = "InvocationRequest" /\ inv.spawn
                       THEN [tasks EXCEPT ![TaskOf(req)] = NewTask(req)]
                       ELSE tasks
           /\ intake' = Deliver(out)
           /\ trace' = trace \o <<ReadEvent(Dispatcher, req)>> \o Recorded(out)
           /\ pc' = IF out = <<>> \/ Accepts THEN pc ELSE "panicked"
           /\ handles' =
                 (IF out = <<>> \/ Accepts THEN handles ELSE handles \ {Dispatcher})
                 \cup (IF req.kind = "InvocationRequest" /\ inv.spawn
                       THEN {TaskProducer(TaskOf(req))} ELSE {})
    /\ UNCHANGED <<pool, tls, spawned, held, wire, writers, consumer,
                   interrupts, outcome>>

\* handle_request's last arm: panic!("unexpected message from host"); the
\* hook installed at init logs it from the dispatcher's thread
UnexpectedMessage(th, req) ==
    /\ pc = "loop"
    /\ th \in FreeThreads
    /\ ~Routed(req)
    /\ Read(req)
    /\ LET out == Items(LoggerSink,
                        <<PanicLog(tls[th], "unexpected message from host")>>)
       IN  /\ pc' = "panicked"
           /\ intake' = Deliver(out)
           /\ trace' = trace \o <<ReadEvent(Dispatcher, req)>> \o Recorded(out)
    /\ handles' = handles \ {Dispatcher}
    /\ UNCHANGED <<pool, registry, tasks, tls, spawned, held, wire, writers,
                   consumer, interrupts, outcome>>

\* the receive stream terminates and for_each resolves; the closure and
\* the `sender` it owns are dropped
StreamEnds(th) ==
    /\ pc = "loop"
    /\ th \in FreeThreads
    /\ pc' = "ended"
    /\ handles' = handles \ {Dispatcher}
    /\ UNCHANGED <<pool, nread, ninv, registry, tasks, tls, spawned, intake,
                   held, wire, writers, trace, consumer, interrupts, outcome>>

(* ---------------------------- invocation tasks ------------------------- *)
\* a pool thread picks the lazy future up; invoke_function binds the
\* thread-local context and enters the invoker
StartInvocation(t, th) ==
    /\ tasks[t].state = "queued"
    /\ th \in FreeThreads
    /\ tasks' = [tasks EXCEPT ![t].state = "invoking", ![t].thread = th]
    /\ tls' = [tls EXCEPT ![th] = BoundContext(tasks[t].func, tasks[t].req)]
    /\ UNCHANGED <<pool, pc, nread, ninv, registry, spawned,
                   intake, held, wire, writers, trace, life>>

\* the record a function's code logs with info!
UserLog(context) == RpcLog("Information", <<"user log">>, context)

\* the records of the functions' code submitted so far
UserLogs ==
    SelectSeq(trace, LAMBDA e : e.ev = "submit" /\ e.msg.level = "Information")

\* the invoker, running on its pool thread, emits a log record: the logger
\* tags it with the INVOCATION_ID of that thread and submits it
InvokerLogs(t) ==
    /\ tasks[t].state = "invoking"
    /\ Len(UserLogs) < MaxLogs
    /\ LET out == Items(LoggerSink, <<UserLog(tls[tasks[t].thread])>>)
       IN  /\ intake' = Deliver(out)
           /\ trace' = trace \o Recorded(out)
    /\ UNCHANGED <<pool, pc, nread, ninv, registry, tasks, tls, spawned, held,
                   wire, writers, life>>

\* invoke_function holding its response back until every invocation
\* received earlier is over
InvokerReturns_InOrder(t, status) ==
    /\ tasks[t].state = "invoking"
    /\ \A u \in Tasks : u < t => tasks[u].state \in {"none", "done"}
    /\ LET out == Items(TaskProducer(t),
                        <<InvokerResponse(tasks[t].req, status)>>)
       IN  /\ intake' = Deliver(out)
           /\ trace' = trace \o Recorded(out)
    /\ tls' = [tls EXCEPT ![tasks[t].thread] = ClearedContext]
    /\ tasks' = [tasks EXCEPT ![t].state = "done"]
    /\ handles' = handles \ {TaskProducer(t)}
    /\ UNCHANGED <<pool, pc, nread, ninv, registry, spawned, held, wire,
                   writers, consumer, interrupts, outcome>>

\* invoke_function returning without clearing the thread-local slots
InvokerReturns_NoClear(t, status) ==
    /\ tasks[t].state = "invoking"
    /\ LET out == Items(TaskProducer(t),
                        <<InvokerResponse(tasks[t].req, status)>>)
       IN  /\ intake' = Deliver(out)
           /\ trace' = trace \o Recorded(out)
    /\ tasks' = [tasks EXCEPT ![t].state = "done"]
    /\ handles' = handles \ {TaskProducer(t)}
    /\ UNCHANGED <<pool, pc, nread, ninv, registry, tls, spawned, held, wire,
                   writers, consumer, interrupts, outcome>>

\* The invoker returns: catch_unwind yields Ok(res); invoke_function
\* clears the context and submits the response. The task ends there, also
\* when unbounded_send returns Err and the expect of line 314 panics.
InvokerReturns(t, status) ==
    /\ tasks[t].state = "invoking"
    /\ LET out == Items(TaskProducer(t),
                        <<InvokerResponse(tasks[t].req, status)>>)
       IN  /\ intake' = Deliver(out)
           /\ trace' = trace \o Recorded(out)
    /\ tls' = [tls EXCEPT ![tasks[t].thread] = ClearedContext]
    /\ tasks' = [tasks EXCEPT ![t].state = "done"]
    /\ handles' = handles \ {TaskProducer(t)}
    /\ UNCHANGED <<pool, pc, nread, ninv, registry, spawned, held, wire,
                   writers, consumer, interrupts, outcome>>

\* invoke_function calling the invoker without catch_unwind: the hook logs,
\* the panic unwinds out of the task and nothing after the call runs
InvokerPanics_Uncaught(t, payload) ==
    /\ tasks[t].state = "invoking"
    /\ LET context == tls[tasks[t].thread]
           out == Items(LoggerSink, <<PanicLog(context, payload)>>)
       IN  /\ intake' = Deliver(out)
           /\ trace' = trace \o Recorded(out)
    /\ tasks' = [tasks EXCEPT ![t].state = "done"]
    /\ handles' = handles \ {TaskProducer(t)}
    /\ UNCHANGED <<pool, pc, nread, ninv, registry, tls, spawned, held, wire,
                   writers, consumer, interrupts, outcome>>

\* the diagnostic logged from the Err(_) arm, after the response was
\* submitted and the slots were cleared, instead of from the panic hook
InvokerPanics_LogAfterClear(t, payload) ==
    /\ tasks[t].state = "invoking"
    /\ LET context == tls[tasks[t].thread]
           out == Items(TaskProducer(t), <<PanicResponse(context)>>)
                  \o Items(LoggerSink, <<PanicLog(ClearedContext, payload)>>)
       IN  /\ intake' = Deliver(out)
           /\ trace' = trace \o Recorded(out)
    /\ tls' = [tls EXCEPT ![tasks[t].thread] = ClearedContext]
    /\ tasks' = [tasks EXCEPT ![t].state = "done"]
    /\ handles' = handles \ {TaskProducer(t)}
    /\ UNCHANGED <<pool, pc, nread, ninv, registry, spawned, held, wire,
                   writers, consumer, interrupts, outcome>>

\* The invoker panics: the hook logs from the panicking thread, then
\* catch_unwind yields Err(_); invoke_function builds the response from the
\* thread's context, clears the context and submits the response.
InvokerPanics(t, payload) ==
    /\ tasks[t].state = "invoking"
    /\ LET context == tls[tasks[t].thread]
           out == Items(LoggerSink, <<PanicLog(context, payload)>>)
                  \o Items(TaskProducer(t), <<PanicResponse(context)>>)
       IN  /\ intake' = Deliver(out)
           /\ trace' = trace \o Recorded(out)
    /\ tls' = [tls EXCEPT ![tasks[t].thread] = ClearedContext]
    /\ tasks' = [tasks EXCEPT ![t].state = "done"]
    /\ handles' = handles \ {TaskProducer(t)}
    /\ UNCHANGED <<pool, pc, nread, ninv, registry, spawned, held, wire,
                   writers, consumer, interrupts, outcome>>

(* ---------------------------- serializer thread ------------------------ *)
\* receiver.into_future().wait() yields Some(msg); rpc_sender.send begins
SerializerTakes ==
    /\ spawned
    /\ outcome = "running"
    /\ consumer = "looping"
    /\ held = <<>>
    /\ intake # <<>>
    /\ held' = <<Dequeue(intake).msg>>
    /\ intake' = Dequeue(intake).rest
    /\ writers' = writers \cup {"serializer"}
    /\ UNCHANGED <<pool, pc, nread, ninv, registry, tasks, tls,
                   spawned, wire, trace, life>>

\* rpc_sender.send(..).wait() returns Ok
SerializerWrites ==
    /\ held # <<>>
    /\ outcome = "running"
    /\ wire' = Append(wire, [writer |-> "serializer", by |-> held[1].by,
                             msg |-> held[1].msg])
    /\ held' = <<>>
    /\ writers' = writers \ {"serializer"}
    /\ UNCHANGED <<pool, pc, nread, ninv, registry, tasks, tls,
                   spawned, intake, trace, life>>

\* rpc_sender.send(..).wait() returns Err: the expect of line 115 panics on
\* the serializer thread, which unwinds; the receiver is dropped with
\* whatever still waited in the channel
SerializerWriteFails ==
    /\ held # <<>>
    /\ outcome = "running"
    /\ consumer' = "panicked"
    /\ held' = <<>>
    /\ intake' = <<>>
    /\ writers' = writers \ {"serializer"}
    /\ UNCHANGED <<pool, pc, nread, ninv, registry, tasks, tls,
                   spawned, wire, trace, handles, interrupts, outcome>>

\* receiver.into_future().wait() yields None, every sender being dropped
\* and the channel empty: the loop breaks and the thread ends
SerializerBreaks ==
    /\ spawned
    /\ outcome = "running"
    /\ consumer = "looping"
    /\ held = <<>>
    /\ intake = <<>>
    /\ handles = {}
    /\ consumer' = "broke"
    /\ UNCHANGED <<pool, pc, nread, ninv, registry, tasks, tls, spawned,
                   intake, held, wire, writers, trace, handles, interrupts,
                   outcome>>

(* ---------------------------- the process ------------------------------ *)
\* a handler that ends the dispatcher loop as the end of the stream does
Interrupt_Shutdown ==
    /\ outcome = "running"
    /\ ~interrupts
    /\ interrupts' = TRUE
    /\ pc' = IF pc = "loop" THEN "ended" ELSE pc
    /\ handles' = IF pc = "loop" THEN handles \ {Dispatcher} ELSE handles
    /\ UNCHANGED <<pool, nread, ninv, registry, tasks, tls, spawned,
                   intake, held, wire, writers, trace, consumer, outcome>>

\* a SIGINT arrives: the handler installed by ctrlc::set_handler(|| {})
\* runs and does nothing
Interrupt ==
    /\ outcome = "running"
    /\ ~interrupts
    /\ interrupts' = TRUE
    /\ UNCHANGED <<pool, pc, nread, ninv, registry, tasks, tls, spawned,
                   intake, held, wire, writers, trace, consumer, handles,
                   outcome>>

\* every future on the pool is over
PoolIdle ==
    /\ pc \in {"ended", "panicked"}
    /\ \A t \in Tasks : tasks[t].state \in {"none", "done"}

\* tokio::run returns once the pool is idle, whether the futures resolved
\* or panicked on their worker threads; execute() then returns Ok(()) and
\* the process ends, the serializer thread with it
ExecuteReturns ==
    /\ outcome = "running"
    /\ PoolIdle
    /\ outcome' = "Ok"
    /\ UNCHANGED <<pool, pc, nread, ninv, registry, tasks, tls, spawned,
                   intake, held, wire, writers, trace, consumer, handles,
                   interrupts>>

(* ---------------------------- specifications -------------------------- *)
\* The messages the host sends in the specification of the whole worker:
\* one of each routed kind that is answered, and the two unexpected ones.
CoreMessages ==
    {m \in HostMessages :
        /\ m.kind \notin NoOpKinds
        /\ m.kind = "FunctionLoadRequest" => (m.has_metadata /\ m.name = "say_hello")}

\* the outcomes of an invoker there: it returns Success, or panics with a string
CoreStatuses == {"Success"}
CorePayloads == {"boom"}

\* the whole worker
Next ==
    \/ SendStartStream
    \/ StartStreamSent
    \/ \E req \in CoreMessages : ReceiveFirstMessage(req)
    \/ FirstMessageMissing
    \/ \E th \in Threads, req \in CoreMessages : HandleRequest(th, req)
    \/ \E th \in Threads, req \in CoreMessages : UnexpectedMessage(th, req)
    \/ \E th \in Threads : StreamEnds(th)
    \/ \E t \in Tasks, th \in Threads : StartInvocation(t, th)
    \/ \E t \in Tasks, status \in CoreStatuses : InvokerReturns(t, status)
    \/ \E t \in Tasks, payload \in CorePayloads : InvokerPanics(t, payload)
    \/ SerializerTakes
    \/ SerializerWrites

Spec == Init /\ [][Next]_vars

\* The producers alone (execute(), the dispatcher and the invocation
\* tasks), under every message of HostMessages. The serializer thread only
\* moves messages from the intake to the send-half and changes nothing a
\* producer reads, so what the producers read, decide and submit is the
\* same with it and without it.
NextDispatch ==
    \/ SendStartStream
    \/ StartStreamSent
    \/ \E req \in HostMessages : ReceiveFirstMessage(req)
    \/ FirstMessageMissing
    \/ \E th \in Threads, req \in HostMessages : HandleRequest(th, req)
    \/ \E th \in Threads, req \in HostMessages : UnexpectedMessage(th, req)
    \/ \E th \in Threads : StreamEnds(th)
    \/ \E t \in Tasks, th \in Threads : StartInvocation(t, th)
    \/ \E t \in Tasks, status \in InvokerStatuses : InvokerReturns(t, status)
    \/ \E t \in Tasks, payload \in PanicPayloads : InvokerPanics(t, payload)

DispatchSpec == Init /\ [][NextDispatch]_vars

\* the messages that bring invocations about; the dispatcher does not
\* route a second WorkerInitRequest
ContextMessages ==
    {m \in CoreMessages : m.kind \notin {"WorkerStatusRequest", "None"}}

\* The producers with the log records of the functions' code.
NextContext ==
    \/ SendStartStream
    \/ StartStreamSent
    \/ \E req \in ContextMessages : ReceiveFirstMessage(req)
    \/ FirstMessageMissing
    \/ \E th \in Threads, req \in ContextMessages : HandleRequest(th, req)
    \/ \E th \in Threads, req \in ContextMessages : UnexpectedMessage(th, req)
    \/ \E th \in Threads : StreamEnds(th)
    \/ \E t \in Tasks, th \in Threads : StartInvocation(t, th)
    \/ \E t \in Tasks : InvokerLogs(t)
    \/ \E t \in Tasks, status \in CoreStatuses : InvokerReturns(t, status)
    \/ \E t \in Tasks, payload \in CorePayloads : InvokerPanics(t, payload)

ContextSpec == Init /\ [][NextContext]_vars

\* The whole worker to the end of the process: a write to the send-half
\* may fail, the serializer loop may break, and execute() returns.
NextLife ==
    \/ SendStartStream
    \/ StartStreamSent
    \/ \E req \in CoreMessages : ReceiveFirstMessage(req)
    \/ FirstMessageMissing
    \/ \E th \in Threads, req \in CoreMessages : HandleRequest(th, req)
    \/ \E th \in Threads, req \in CoreMessages : UnexpectedMessage(th, req)
    \/ \E th \in Threads : StreamEnds(th)
    \/ \E t \in Tasks, th \in Threads : StartInvocation(t, th)
    \/ \E t \in Tasks, status \in CoreStatuses : InvokerReturns(t, status)
    \/ \E t \in Tasks, payload \in CorePayloads : InvokerPanics(t, payload)
    \/ SerializerTakes
    \/ SerializerWrites
    \/ SerializerWriteFails
    \/ SerializerBreaks
    \/ ExecuteReturns

LifeSpec == Init /\ [][NextLife]_vars

\* the messages the dispatcher accepts without acting, an InvocationCancel
\* naming any invocation issued so far, next to those that bring
\* invocations about
NoOpMessages ==
    {m \in ContextMessages : m.kind # "WorkerInitRequest" \/ nread = 0}
    \cup {Plain("FileChangeEventRequest"),
          Plain("FunctionEnvironmentReloadRequest")}
    \cup {InvocationCancel(InvocationIds[i]) : i \in 1..ninv}

\* The producers under the no-op messages.
NextNoOp ==
    \/ SendStartStream
    \/ StartStreamSent
    \/ \E req \in NoOpMessages : ReceiveFirstMessage(req)
    \/ FirstMessageMissing
    \/ \E th \in Threads, req \in NoOpMessages : HandleRequest(th, req)
    \/ \E th \in Threads : StreamEnds(th)
    \/ \E t \in Tasks, th \in Threads : StartInvocation(t, th)
    \/ \E t \in Tasks, status \in CoreStatuses : InvokerReturns(t, status)
    \/ \E t \in Tasks, payload \in CorePayloads : InvokerPanics(t, payload)

NoOpSpec == Init /\ [][NextNoOp]_vars

\* The worker under interrupts. The pool runs every ready task, an invoker
\* comes to its end, the serializer thread and the main thread are
\* scheduled: these steps are taken when they stay possible. What the host
\* sends, whether it ends the stream and whether a signal arrives is up to
\* the environment.
NextSignal ==
    \/ SendStartStream
    \/ StartStreamSent
    \/ \E req \in ContextMessages : ReceiveFirstMessage(req)
    \/ FirstMessageMissing
    \/ \E th \in Threads, req \in ContextMessages : HandleRequest(th, req)
    \/ \E th \in Threads, req \in ContextMessages : UnexpectedMessage(th, req)
    \/ \E th \in Threads : StreamEnds(th)
    \/ \E t \in Tasks, th \in Threads : StartInvocation(t, th)
    \/ \E t \in Tasks, status \in CoreStatuses : InvokerReturns(t, status)
    \/ \E t \in Tasks, payload \in CorePayloads : InvokerPanics(t, payload)
    \/ SerializerTakes
    \/ SerializerWrites
    \/ SerializerBreaks
    \/ ExecuteReturns
    \/ Interrupt

WorkerSteps ==
    \/ SendStartStream
    \/ StartStreamSent
    \/ \E t \in Tasks, th \in Threads : StartInvocation(t, th)
    \/ \E t \in Tasks, status \in CoreStatuses : InvokerReturns(t, status)
    \/ SerializerTakes
    \/ SerializerWrites
    \/ SerializerBreaks
    \/ ExecuteReturns

SignalSpec == Init /\ [][NextSignal]_vars /\ WF_vars(WorkerSteps)

(* ---------------------------- reading the history ---------------------- *)
\* a read by the dispatcher loop (the first inbound message is read by
\* execute() itself)
IsRead(e, kind) == e.ev = "read" /\ e.by = Dispatcher /\ e.msg.kind = kind
IsSubmit(e, kind) == e.ev = "submit" /\ e.msg.kind = kind

\* positions of the history where a message of this kind was read / submitted
ReadsOf(kind) == {i \in 1..Len(trace) : IsRead(trace[i], kind)}
SubmitsOf(kind) == {i \in 1..Len(trace) : IsSubmit(trace[i], kind)}

\* positions where an InvocationResponse carrying this invocation id was submitted
ResponsesTo(id) ==
    {j \in SubmitsOf("InvocationResponse") : trace[j].msg.invocation_id = id}

PanicText == <<"Azure Function panicked: see log for more information.">>

\* what a step appended to the history
Appended == SubSeq(trace', Len(trace) + 1, Len(trace'))

\* the step is the invoker of task t panicking
Faults(t) == \E payload \in PanicPayloads : InvokerPanics(t, payload)

\* the step is the dispatcher reading and routing req
Routes(req) == \E th \in Threads : HandleRequest(th, req)

C2_PanicResponse ==
    [][\A t \in Tasks : Faults(t) =>
          LET responses == SelectSeq(Appended,
                               LAMBDA e : IsSubmit(e, "InvocationResponse"))
              errors == SelectSeq(Appended,
                            LAMBDA e : IsSubmit(e, "RpcLog") /\ e.msg.level = "Error")
          IN  /\ Len(responses) = 1
              /\ responses[1].msg =
                     Response("InvocationResponse", "", tasks[t].req.invocation_id,
                              "Failure", PanicText)
              /\ Len(errors) = 1
              /\ \E k \in 1..Len(errors[1].msg.result) :
                     errors[1].msg.result[k] = tasks[t].func
              /\ tasks[t].func \in Descriptors
      ]_vars

\* a task has panicked and its Failure response is in the history
C2_Witness ==
    \E t \in Tasks :
        /\ tasks[t].state = "done"
        /\ \E j \in ResponsesTo(tasks[t].req.invocation_id) :
              /\ trace[j].msg.result = PanicText
              /\ trace[j].msg.status = "Failure"
              /\ j > 1
              /\ IsSubmit(trace[j - 1], "RpcLog")

(* ---------------------------- C3 --------------------------------------- *)
\* C3: a panic in the invoker of task t changes nothing but task t: the
\* dispatcher stays where it is and has a thread to run on, the registry
\* and every other task and thread context are untouched; and every task
\* that has run to its end, whatever happened to the others, has exactly one
\* InvocationResponse, submitted by itself and carrying its own id, which is
\* the fixed Failure only if it is the one that panicked.
C3_Contained ==
    [][\A t \in Tasks : Faults(t) =>
          /\ pc' = pc
          /\ IdleThreads' # {}
          /\ registry' = registry
          /\ \A u \in Tasks \ {t} : tasks'[u] = tasks[u]
          /\ \A th \in Threads \ {tasks[t].thread} : tls'[th] = tls[th]
          /\ \A k \in 1..Len(Appended) :
                Appended[k].msg.invocation_id = tasks[t].req.invocation_id
      ]_vars

C3_OwnResponse ==
    \A t \in Tasks : tasks[t].state = "done" =>
        /\ Cardinality(ResponsesTo(tasks[t].req.invocation_id)) = 1
        /\ \A j \in ResponsesTo(tasks[t].req.invocation_id) :
              /\ trace[j].by = TaskProducer(t)
              /\ trace[j].msg.result = PanicText
                    => /\ j > 1
                       /\ IsSubmit(trace[j - 1], "RpcLog")
                       /\ trace[j - 1].msg.invocation_id = tasks[t].req.invocation_id

C3_FaultIsolation == C3_Contained /\ []C3_OwnResponse

\* one task panicked while another was in flight, and the other one then
\* returned Success: the panic's response precedes the other's in the history
C3_Witness ==
    \E t, u \in Tasks :
        /\ t # u
        /\ tasks[t].state = "done"
        /\ tasks[u].state = "done"
        /\ pc = "loop"
        /\ \E j \in ResponsesTo(tasks[t].req.invocation_id),
              k \in ResponsesTo(tasks[u].req.invocation_id) :
              /\ j < k
              /\ trace[j].msg.result = PanicText
              /\ trace[k].msg.status = "Success"
              /\ \E i \in ReadsOf("InvocationRequest") :
                    i < j /\ trace[i].msg.invocation_id = tasks[u].req.invocation_id

(* ---------------------------- C4 --------------------------------------- *)
\* C4: every FunctionLoadRequest read is followed at once in the history,
\* before any other read, by one FunctionLoadResponse with its function_id
\* submitted by the dispatcher, and every FunctionLoadResponse is the one
\* that follows such a read.
C4_LoadAnsweredBeforeNextRead ==
    /\ \A i \in ReadsOf("FunctionLoadRequest") :
          /\ i + 1 <= Len(trace)
          /\ IsSubmit(trace[i + 1], "FunctionLoadResponse")
          /\ trace[i + 1].by = Dispatcher
          /\ trace[i + 1].msg.function_id = trace[i].msg.function_id
    /\ \A j \in SubmitsOf("FunctionLoadResponse") :
          /\ j > 1
          /\ IsRead(trace[j - 1], "FunctionLoadRequest")

\* two FunctionLoadRequests have been read and answered
C4_Witness ==
    /\ Cardinality(ReadsOf("FunctionLoadRequest")) >= 2
    /\ Cardinality(SubmitsOf("FunctionLoadResponse")) >= 2

(* ---------------------------- C5 --------------------------------------- *)
LoadRequests == {m \in HostMessages : m.kind = "FunctionLoadRequest"}
InvocationRequests == {m \in HostMessages : m.kind = "InvocationRequest"}

MissingMetadataText == <<"Function load request metadata is missing.">>
NoSuchFunctionText(name) == <<"Function '", name, "' does not exist.">>
NoSuchIdText(fid) == <<"Function with id '", fid, "' does not exist.">>

\* the last message a step submitted
LastSubmitted == trace'[Len(trace')].msg

\* C5: when the dispatcher routes a FunctionLoadRequest, the response's
\* status is Success exactly when register(function_id, name) succeeds on
\* the registry as it was, and the registry becomes what register leaves; it
\* is Failure with "Function '<name>' does not exist." when no descriptor has
\* the name; without metadata it is Failure with "Function load request
\* metadata is missing." and the registry is unchanged. The dispatcher stays
\* in its loop in every case.
C5_LoadStatus ==
    [][\A req \in LoadRequests : Routes(req) =>
          LET r == Register(registry, req.function_id, req.name)
              resp == LastSubmitted
          IN  /\ pc' = "loop"
              /\ resp.kind = "FunctionLoadResponse"
              /\ resp.status \in {"Success", "Failure"}
              /\ IF req.has_metadata
                 THEN /\ (resp.status = "Success") <=> r.ok
                      /\ registry' = r.registry
                      /\ resp.status = "Success"
                            => Get(registry', req.function_id) = req.name
                      /\ req.name \notin Descriptors
                            => /\ resp.status = "Failure"
                               /\ resp.result = NoSuchFunctionText(req.name)
                 ELSE /\ resp.status = "Failure"
                      /\ resp.result = MissingMetadataText
                      /\ registry' = registry
      ]_vars

\* a load of an unknown name and a load without metadata were each answered
\* with their Failure, and a later load succeeded
C5_Witness ==
    \E i, j, k \in SubmitsOf("FunctionLoadResponse") :
        /\ i < k
        /\ j < k
        /\ trace[i].msg.result = NoSuchFunctionText("nope")
        /\ trace[j].msg.result = MissingMetadataText
        /\ trace[k].msg.status = "Success"
        /\ registry[trace[k].msg.function_id] \in Descriptors

(* ---------------------------- C6 --------------------------------------- *)
\* C6: when the dispatcher routes an InvocationRequest whose function_id is
\* unbound, the step itself reads the request and submits, from the
\* dispatcher, one InvocationResponse with the request's invocation_id,
\* status Failure and "Function with id '<id>' does not exist."; it spawns
\* no task, leaves the registry alone and stays in the loop.
C6_UnknownFunction ==
    [][\A req \in InvocationRequests :
          (Routes(req) /\ Get(registry, req.function_id) = Unbound) =>
              /\ Appended =
                    <<ReadEvent(Dispatcher, req),
                      SubmitEvent(Item(Dispatcher,
                          Response("InvocationResponse", "", req.invocation_id,
                                   "Failure", NoSuchIdText(req.function_id))))>>
              /\ tasks' = tasks
              /\ registry' = registry
              /\ pc' = "loop"
      ]_vars

\* an invocation of an unbound id was answered with the Failure and the
\* dispatcher went on to read another message
C6_Witness ==
    \E j \in SubmitsOf("InvocationResponse") :
        /\ trace[j].msg.result = NoSuchIdText("A")
        /\ trace[j].by = Dispatcher
        /\ tasks[TaskOf(trace[j].msg)].state = "none"
        /\ j < Len(trace)
        /\ trace[j + 1].ev = "read"

(* ---------------------------- C7 --------------------------------------- *)
\* C7: every WorkerStatusRequest read is followed at once in the history,
\* before any other read, by one empty WorkerStatusResponse submitted by the
\* dispatcher, and every WorkerStatusResponse is the one that follows such a
\* read.
C7_StatusAnsweredAtOnce ==
    /\ \A i \in ReadsOf("WorkerStatusRequest") :
          /\ i + 1 <= Len(trace)
          /\ trace[i + 1] = SubmitEvent(Item(Dispatcher, Plain("WorkerStatusResponse")))
    /\ \A j \in SubmitsOf("WorkerStatusResponse") :
          /\ j > 1
          /\ IsRead(trace[j - 1], "WorkerStatusRequest")

\* a status request was read and answered while an invocation, read before
\* it, was inside its invoker
C7_Witness ==
    \E i \in ReadsOf("WorkerStatusRequest"), t \in Tasks :
        /\ tasks[t].state = "invoking"
        /\ \E k \in ReadsOf("InvocationRequest") :
              k < i /\ trace[k].msg = tasks[t].req
        /\ IsSubmit(trace[i + 1], "WorkerStatusResponse")

(* ---------------------------- C8 --------------------------------------- *)
\* the dispatcher reads a WorkerStatusRequest and routes it
ReadsWorkerStatus ==
    \E th \in Threads : HandleRequest(th, Plain("WorkerStatusRequest"))

\* C8: while the dispatcher is in its loop it can always take the next
\* WorkerStatusRequest, whatever the invocations in flight are doing.
C8_DispatcherNeverWaits ==
    (pc = "loop" /\ nread < MaxInbound) => ENABLED ReadsWorkerStatus

(* ---------------------------- C9 --------------------------------------- *)
\* C9: at most one writer is inside a write to the send-half at a time; the
\* only writers ever are execute(), for StartStream and before the
\* serializer thread exists, and the serializer thread afterwards; every
\* message on the wire after StartStream was written by the serializer.
C9_SingleWriter ==
    /\ Cardinality(writers) <= 1
    /\ writers \subseteq {"lifecycle", "serializer"}
    /\ "lifecycle" \in writers => (~spawned /\ held = <<>> /\ wire = <<>>)
    /\ held # <<>> => (spawned /\ writers = {"serializer"})
    /\ \A i \in 1..Len(wire) :
          IF i = 1
          THEN wire[i].writer = "lifecycle" /\ wire[i].msg = StartStream
          ELSE wire[i].writer = "serializer"

\* the serializer is inside a write, after StartStream and other messages
\* went out, while more messages wait in the intake
C9_Witness ==
    /\ writers = {"serializer"}
    /\ Len(wire) >= 3
    /\ intake # <<>>
    /\ \E t \in Tasks : tasks[t].state = "invoking"

(* ---------------------------- C10 -------------------------------------- *)
\* everything submitted to the intake so far, in submission order
Submitted ==
    LET subs == SelectSeq(trace, LAMBDA e : e.ev = "submit")
    IN  [i \in 1..Len(subs) |-> Item(subs[i].by, subs[i].msg)]

\* what the serializer has written, in write order
Written ==
    LET out == SelectSeq(wire, LAMBDA w : w.writer = "serializer")
    IN  [i \in 1..Len(out) |-> Item(out[i].by, out[i].msg)]

OfProducer(items, by) == SelectSeq(items, LAMBDA x : x.by = by)

Producers == {Lifecycle, Dispatcher, LoggerSink} \cup {TaskProducer(t) : t \in Tasks}

\* C10: what the serializer has written, then what it holds, then what
\* waits in the intake is exactly what was submitted, in submission order: so
\* the writes are a prefix of the submissions in arrival order, each
\* producer's messages are written in the order it submitted them, and
\* nothing dequeued is reordered, duplicated or dropped.
C10_Fifo ==
    /\ Written \o held \o intake = Submitted
    /\ \A by \in Producers :
          \E n \in 0..Len(OfProducer(Submitted, by)) :
              OfProducer(Written, by) = SubSeq(OfProducer(Submitted, by), 1, n)

\* messages of three producers have been written and more are waiting
C10_Witness ==
    /\ Len(Written) >= 3
    /\ Cardinality({Written[i].by : i \in 1..Len(Written)}) >= 3
    /\ intake # <<>>

(* ---------------------------- C11 -------------------------------------- *)
\* the pool thread th is inside the invoker of some task
Occupied(th) == \E t \in Tasks : Running(t) /\ tasks[t].thread = th

\* the log records a step submitted
LogsAppended == SelectSeq(Appended, LAMBDA e : IsSubmit(e, "RpcLog"))

\* the step is the dispatcher panicking on a message it does not route
Unexpected == \E th \in Threads, req \in HostMessages : UnexpectedMessage(th, req)

C11_Bound ==
    /\ \A t \in Tasks : Running(t) =>
          /\ tasks[t].thread \in 1..pool
          /\ tls[tasks[t].thread].name = tasks[t].func
          /\ tls[tasks[t].thread].id = tasks[t].req.invocation_id
          /\ tasks[t].func \in Descriptors
          /\ \A u \in Tasks \ {t} : Running(u) => tasks[u].thread # tasks[t].thread
    /\ \A th \in Threads : ~Occupied(th) =>
          tls[th].name = UNKNOWN /\ tls[th].id = NoInvocation

C11_Tagged ==
    [][/\ \A t \in Tasks :
            (InvokerLogs(t) \/ Faults(t)
             \/ \E status \in InvokerStatuses : InvokerReturns(t, status)) =>
                /\ \A k \in 1..Len(LogsAppended) :
                      LogsAppended[k].msg.invocation_id = tasks[t].req.invocation_id
                /\ tasks'[t].state = "done" =>
                      tls'[tasks[t].thread] = [name |-> UNKNOWN, id |-> NoInvocation]
       /\ Unexpected =>
            /\ Len(LogsAppended) = 1
            /\ LogsAppended[1].msg.invocation_id = ""
            /\ LogsAppended[1].msg.result[2] = UNKNOWN
      ]_vars

\* C11: a thread inside an invoker holds exactly that invocation's function
\* name and invocation id in its two slots, whatever runs on the other
\* threads; every other thread holds "<unknown>" and the empty id; the step
\* that ends an invocation, by return or by panic, leaves its thread's slots
\* at the defaults; a log record emitted by an invocation carries that
\* invocation's id, and the one emitted by the dispatcher carries the empty
\* id.
C11_ContextIsolation == []C11_Bound /\ C11_Tagged

\* two invocations are inside their invokers on two threads, and the one
\* that started last has logged a record, which carries its own id
C11_Witness ==
    \E t, u \in Tasks :
        /\ t < u
        /\ Running(t) /\ Running(u)
        /\ tls[tasks[t].thread].id # tls[tasks[u].thread].id
        /\ tls[tasks[t].thread].id # NoInvocation
        /\ \E i \in SubmitsOf("RpcLog") :
              /\ trace[i].msg.level = "Information"
              /\ trace[i].msg.invocation_id = tasks[u].req.invocation_id

(* ---------------------------- C12 -------------------------------------- *)
\* positions of the history where execute() itself read a message
FirstReads == {i \in 1..Len(trace) : trace[i].ev = "read" /\ trace[i].by = Lifecycle}

AnsweringKinds ==
    {"FunctionLoadResponse", "InvocationResponse", "WorkerStatusResponse", "RpcLog"}

\* C12: nothing is read, submitted or written before StartStream, carrying
\* the worker id, is on the wire as its first message; execute() then reads
\* one message, the first of the history, and no other; when that message
\* is a WorkerInitRequest, the WorkerInitResponse with status Success is
\* submitted next, before the dispatcher reads anything, and it is the
\* second message on the wire, ahead of every FunctionLoadResponse,
\* InvocationResponse, WorkerStatusResponse and RpcLog.
C12_HandshakeOrder ==
    /\ pc \in {"start", "sending_start"} =>
          (nread = 0 /\ trace = <<>> /\ wire = <<>> /\ intake = <<>>)
    /\ pc \notin {"start", "sending_start"} => wire # <<>>
    /\ wire # <<>> =>
          /\ wire[1].msg.kind = "StartStream"
          /\ wire[1].msg.worker_id = WorkerId
    /\ Cardinality(FirstReads) <= 1
    /\ trace # <<>> => FirstReads = {1}
    /\ (trace # <<>> /\ trace[1].msg.kind = "WorkerInitRequest") =>
          /\ Len(trace) >= 2
          /\ trace[2] = SubmitEvent(Item(Lifecycle, WorkerInitResponse))
          /\ trace[2].msg.status = "Success"
    /\ \A i \in 1..Len(trace) :
          (trace[i].ev = "read" /\ trace[i].by = Dispatcher) =>
              /\ i > 2
              /\ trace[1].msg.kind = "WorkerInitRequest"
              /\ IsSubmit(trace[2], "WorkerInitResponse")
    /\ Len(wire) >= 2 => wire[2].msg = WorkerInitResponse
    /\ \A j \in 1..Len(wire) :
          /\ wire[j].msg.kind \in AnsweringKinds => j > 2
          /\ wire[j].msg.kind = "WorkerInitResponse" => j = 2

\* the handshake is on the wire, followed by the answer to a request the
\* dispatcher read afterwards
C12_Witness ==
    /\ Len(wire) >= 3
    /\ wire[1].msg = StartStream
    /\ wire[2].msg = WorkerInitResponse
    /\ wire[3].msg.kind \in AnsweringKinds
    /\ \E i \in 1..Len(trace) : trace[i].ev = "read" /\ trace[i].by = Dispatcher

(* ---------------------------- C13 -------------------------------------- *)
\* the future built by execute() panicked on a protocol violation: no first
\* message, a first message that is no WorkerInitRequest, or a message the
\* dispatcher does not route
ProtocolViolated ==
    /\ pc = "panicked"
    /\ \/ trace = <<>>
       \/ trace # <<>> /\ trace[1].msg.kind # "WorkerInitRequest"
       \/ \E i \in 1..Len(trace) :
             /\ trace[i].ev = "read"
             /\ trace[i].by = Dispatcher
             /\ ~Routed(trace[i].msg)

\* C13: after a protocol violation no further inbound message is read, and
\* when the process has ended what execute() returned is not Ok(()), the
\* result that becomes exit code 0.
C13_ViolationIsFatal ==
    [][ProtocolViolated =>
          /\ nread' = nread
          /\ outcome' # "Ok"
      ]_vars

(* ---------------------------- C14 -------------------------------------- *)
\* C14: when the process ends after the receive stream terminated, with no
\* write having failed, no invocation is still queued or inside its invoker,
\* what execute() returned is Ok(()), and every message submitted to the
\* intake has been written to the send-half.
C14_DrainedAtExit ==
    (pc = "ended" /\ outcome # "running" /\ consumer # "panicked") =>
        /\ \A t \in Tasks : tasks[t].state \in {"none", "done"}
        /\ outcome = "Ok"
        /\ intake = <<>>
        /\ held = <<>>
        /\ Written = Submitted

(* ---------------------------- C16 -------------------------------------- *)
\* C16: once a write to the send-half has failed, no further inbound
\* message is read, no queued invocation enters its invoker, and the
\* process does not end with Ok(()).
C16_WriteFailureIsFatal ==
    [][consumer = "panicked" =>
          /\ nread' = nread
          /\ \A t \in Tasks :
                tasks[t].state = "queued" => tasks'[t].state = "queued"
          /\ outcome' # "Ok"
      ]_vars

(* ---------------------------- C17 -------------------------------------- *)
\* C17: once the receive stream has ended and every invocation is over, no
\* clone of the intake's sender is left, so that the serializer's receiver
\* yields None after the last message and the loop breaks.
C17_IntakeClosed ==
    (pc = "ended" /\ PoolIdle) => handles = {}

(* ---------------------------- C15 -------------------------------------- *)
\* C15 as claimed: once a SIGINT has arrived, execute() eventually returns
\* and the process ends.
C15_InterruptShutsDown == interrupts ~> (outcome # "running")

\* C15, amended: the step in which a SIGINT arrives changes nothing of the
\* worker (the dispatcher stays in its loop, the invocations, the intake,
\* the serializer and the process go on as they were), and execute()
\* returns only when the future it built is over, by the end of the
\* inbound stream or by a panic, and never because of the signal.
C15_InterruptIgnored ==
    [][/\ interrupts' # interrupts =>
            UNCHANGED <<pool, pc, nread, ninv, registry, tasks, tls, spawned,
                        intake, held, wire, writers, trace, consumer, handles,
                        outcome>>
       /\ outcome' # outcome => pc \in {"ended", "panicked"}
      ]_vars

\* a SIGINT has arrived and the worker is still at work: the dispatcher in
\* its loop, an invocation inside its invoker, the serializer writing
C15_Witness ==
    /\ interrupts
    /\ pc = "loop"
    /\ outcome = "running"
    /\ \E t \in Tasks : Running(t)
    /\ held # <<>>

(* ---------------------------- C18 -------------------------------------- *)
\* C18: the step in which the invoker of task t panics submits two
\* messages, in this order: the error log, built while the thread's slots
\* still hold the task's function name and invocation id, so that it names
\* that function and carries that id (never "<unknown>", the empty id or
\* the values of another invocation), and then the Failure
\* InvocationResponse of the task; in the intake, and so on the wire, the
\* log is the message right before the response.
C18_LogBeforeResponse ==
    [][\A t \in Tasks : Faults(t) =>
          /\ tls[tasks[t].thread] = BoundContext(tasks[t].func, tasks[t].req)
          /\ Len(Appended) = 2
          /\ IsSubmit(Appended[1], "RpcLog")
          /\ Appended[1].by = LoggerSink
          /\ Appended[1].msg.level = "Error"
          /\ Appended[1].msg.result[2] = tasks[t].func
          /\ Appended[1].msg.result[2] # UNKNOWN
          /\ Appended[1].msg.invocation_id = tasks[t].req.invocation_id
          /\ Appended[1].msg.invocation_id # NoInvocation
          /\ \A u \in Tasks \ {t} :
                Appended[1].msg.invocation_id # tasks[u].req.invocation_id
          /\ IsSubmit(Appended[2], "InvocationResponse")
          /\ Appended[2].by = TaskProducer(t)
          /\ Appended[2].msg.status = "Failure"
          /\ Appended[2].msg.invocation_id = tasks[t].req.invocation_id
          /\ intake' = intake \o <<Item(LoggerSink, Appended[1].msg),
                                    Item(TaskProducer(t), Appended[2].msg)>>
      ]_vars

\* an invocation panicked while another one was inside its invoker: its
\* log, carrying its id, is in the history right before its response
C18_Witness ==
    \E t, u \in Tasks :
        /\ t # u
        /\ tasks[t].state = "done"
        /\ Running(u)
        /\ \E j \in ResponsesTo(tasks[t].req.invocation_id) :
              /\ trace[j].msg.result = PanicText
              /\ j > 1
              /\ IsSubmit(trace[j - 1], "RpcLog")
              /\ trace[j - 1].msg.invocation_id = tasks[t].req.invocation_id
              /\ trace[j - 1].msg.invocation_id # tls[tasks[u].thread].id
              /\ \E i \in ReadsOf("InvocationRequest") :
                    i < j - 1 /\ trace[i].msg = tasks[u].req

(* ---------------------------- C19 -------------------------------------- *)
\* the messages of the three kinds handle_request accepts and ignores
NoOpRequests ==
    {Plain(k) : k \in NoOpKinds}
    \cup {InvocationCancel(InvocationIds[i]) : i \in 1..Len(InvocationIds)}

\* positions where an InvocationCancel naming this invocation was read
CancelsOf(id) ==
    {k \in ReadsOf("InvocationCancel") : trace[k].msg.invocation_id = id}

C19_Silent ==
    [][\A req \in NoOpRequests : Routes(req) =>
          /\ Appended = <<ReadEvent(Dispatcher, req)>>
          /\ intake' = intake
          /\ registry' = registry
          /\ tasks' = tasks
          /\ tls' = tls
          /\ handles' = handles
          /\ pc' = "loop"
      ]_vars

C19_StillAnswered ==
    \A i \in ReadsOf("InvocationRequest") :
        LET id == trace[i].msg.invocation_id
            t == TaskOf(trace[i].msg)
        IN  CancelsOf(id) # {} =>
              IF IsSubmit(trace[i + 1], "InvocationResponse")
                 /\ trace[i + 1].by = Dispatcher
              THEN ResponsesTo(id) = {i + 1}
              ELSE /\ tasks[t].state # "none"
                   /\ tasks[t].req = trace[i].msg
                   /\ Cardinality(ResponsesTo(id)) =
                          IF tasks[t].state = "done" THEN 1 ELSE 0
                   /\ \A j \in ResponsesTo(id) : trace[j].by = TaskProducer(t)

\* C19: the step in which the dispatcher reads a FileChangeEventRequest, an
\* InvocationCancel or a FunctionEnvironmentReloadRequest submits nothing
\* and changes neither the registry, nor any task, nor any thread's slots,
\* and the dispatcher stays in its loop; an invocation named by an
\* InvocationCancel, unless it was answered at once for want of a
\* registered function, keeps its task, and has exactly one
\* InvocationResponse, submitted by that task, once the task is over.
C19_NoOps == C19_Silent /\ []C19_StillAnswered

\* an InvocationCancel naming an invocation was read while that invocation
\* was inside its invoker, and the invoker then returned Success
C19_Witness ==
    \E t \in Tasks :
        /\ tasks[t].state = "done"
        /\ \E i \in ReadsOf("InvocationRequest"),
              k \in CancelsOf(tasks[t].req.invocation_id),
              j \in ResponsesTo(tasks[t].req.invocation_id) :
              /\ trace[i].msg = tasks[t].req
              /\ i < k
              /\ k < j
              /\ trace[j].msg.status = "Success"

(* ---------------------------- C20 -------------------------------------- *)
\* the step is the invoker of task t returning
Returns(t) == \E status \in InvokerStatuses : InvokerReturns(t, status)

\* an invocation inside its invoker can return, and submit its response,
\* whatever state the other invocations are in
C20_NeverWaits ==
    \A t \in Tasks : Running(t) => ENABLED Returns(t)

\* the step that ends an invocation is the step that submits its response
C20_SubmitsOnCompletion ==
    [][\A t \in Tasks : (Returns(t) \/ Faults(t)) =>
          /\ tasks'[t].state = "done"
          /\ Appended # <<>>
          /\ Appended[Len(Appended)].by = TaskProducer(t)
          /\ Appended[Len(Appended)].msg.kind = "InvocationResponse"
          /\ Appended[Len(Appended)].msg.invocation_id = tasks[t].req.invocation_id
          /\ \A u \in Tasks \ {t} : tasks'[u] = tasks[u]
      ]_vars

\* the responses of the tasks are in the history in the order the tasks
\* came to their end: a task that is over has its response there, a task
\* that is not has none, whichever request was read first
C20_Ordered ==
    \A t \in Tasks :
        Cardinality({j \in ResponsesTo(tasks[t].req.invocation_id) :
                        trace[j].by = TaskProducer(t)})
            = IF tasks[t].state = "done" THEN 1 ELSE 0

\* C20: an invocation's response is submitted in the step its invoker
\* ends, and that step never waits for another invocation, so the
\* responses enter the intake in the order the invocations end: one that
\* was received later and ends first has its response submitted while the
\* earlier one is still inside its invoker.
C20_CompletionOrder ==
    []C20_NeverWaits /\ C20_SubmitsOnCompletion /\ []C20_Ordered

\* invocation u was received after invocation t and ended first: its
\* response is in the history while t is still inside its invoker
C20_Witness ==
    \E t, u \in Tasks :
        /\ t < u
        /\ Running(t)
        /\ tasks[u].state = "done"
        /\ ResponsesTo(tasks[t].req.invocation_id) = {}
        /\ \E i, k \in ReadsOf("InvocationRequest"),
              j \in ResponsesTo(tasks[u].req.invocation_id) :
              /\ trace[i].msg = tasks[t].req
              /\ trace[k].msg = tasks[u].req
              /\ i < k
              /\ k < j

====
